---- MODULE Spec2Model ----
(***************************************************************************)
(* Model of the Purser price tracker: the scraping orchestrator            *)
(* (app/scraping.py), the adapters (app/adapters/*.py) and the batch check *)
(* and watchlist aggregation of app/main.py.                               *)
(*                                                                         *)
(* Text is modelled as a sequence of tokens: a URL is <<scheme, host       *)
(* tokens..., path>>, and a domain is the sequence of its host tokens, so  *)
(* that lower-casing, prefix stripping and list membership are computed    *)
(* and not assumed.                                                        *)
(***************************************************************************)
EXTENDS Integers, Sequences, FiniteSets, TLC

VARIABLES
    adapters,    \* ScrapingOrchestrator.adapters, in registration order
    r_url,       \* argument of a find_adapter call (registry specification)
    r_adapter,   \* what that call returned
    items,       \* table item: id -> row
    prices,      \* table price, in insertion order
    flags,       \* table flag, in insertion order
    targets,     \* table target, in insertion order
    b_pc,        \* position of check_all_items / check_single_item
    b_queue,     \* items of the running batch not yet checked
    b_cur,       \* item being checked
    b_listing,   \* listing_data of the item being checked
    staged,      \* writes added to the session and not yet committed
    b_targets,   \* the items the running batch selected
    outcome,     \* item -> how its check ended in the running batch
    f_pc,        \* position of fetch_listing
    f_url,       \* its argument
    f_adapter,   \* the adapter it selected
    f_result,    \* the value it is about to return
    f_exc,       \* an exception is propagating out of the async-with body
    pw,          \* the playwright driver of the async-with block
    browser,     \* the browser launched by the fetch
    scraped,     \* what adapter.scrape returned in this fetch
    failed,      \* the steps of this fetch that raised
    hung,        \* the page of this fetch has stopped responding
    rows,        \* response of build_watchlist_rows being delivered
    p_text,      \* argument of a _parse_price_text call (parser specification)
    p_result,    \* what that call returned
    a_adapter,   \* adapter of a scrape call (adapter specification)
    a_page,      \* the page handle given to it
    a_url,       \* the url given to it
    a_result     \* what that call returned

vars == <<adapters, r_url, r_adapter, items, prices, flags, targets,
          b_pc, b_queue, b_cur, b_listing, staged, b_targets,
          outcome,
          f_pc, f_url, f_adapter, f_result, f_exc, pw, browser, scraped,
          failed, hung, rows,
          p_text, p_result, a_adapter, a_page, a_url, a_result>>

(* An optional value is a set of at most one element. *)
None == {}
Some(v) == {v}
TheValue(o) == CHOOSE v \in o : TRUE
(* Python truthiness of an optional string: not None and not empty *)
TruthyText(o) == \E v \in o : Len(v) > 0

-----------------------------------------------------------------------------
(* Bounds *)

MaxHostTokens == 2     \* host tokens in an enumerated URL
NumItems == 2          \* rows of table item
MaxPrices == 3         \* rows of table price in the engine specification
MaxShort == 2          \* length of a two-item price table given to the aggregator
MaxTargets == 1        \* rows of table target in the store specification
MaxChunks == 3         \* chunks of a text given to the price parser
MaxHist == 11          \* length of a one-item price history given to the aggregator

-----------------------------------------------------------------------------
(* URLs and domains *)

Schemes == {"https://", "mailto:"}
HostTokens == {"www.", "WWW.", "ebay.com", "EBAY.com", "shop.example", "m.",
               ":8080", "*", "["}
Paths == {"/itm/1"}

RECURSIVE SeqsUpTo(_, _)
SeqsUpTo(S, n) ==
    IF n = 0 THEN {<<>>}
    ELSE LET shorter == SeqsUpTo(S, n - 1)
         IN  shorter \cup {Append(s, t) : s \in shorter, t \in S}

(* str.lower() on one token *)
LowerToken(t) ==
    CASE t = "WWW." -> "www."
      [] t = "EBAY.com" -> "ebay.com"
      [] OTHER -> t

Lower(s) == [k \in 1..Len(s) |-> LowerToken(s[k])]

(* urlparse(url).netloc: the text between "//" and the path; empty when the
   URL has no "//"; urlparse raises ValueError on an unbalanced bracket. *)
HostOf(url) ==
    SelectSeq(SubSeq(url, 2, Len(url)), LAMBDA t : t \in HostTokens)

UrlparseRaises(url) == url[1] = "https://" /\ \E k \in 2..Len(url) : url[k] = "["

Netloc(url) == IF url[1] = "https://" THEN HostOf(url) ELSE <<>>

_extract_domain(url) ==
    IF UrlparseRaises(url) THEN <<"unknown">>
    ELSE LET domain == Lower(Netloc(url))
         IN  IF Len(domain) > 0 /\ domain[1] = "www."
             THEN SubSeq(domain, 2, Len(domain))
             ELSE domain

(* str.replace('www.', '') of main.domain_from_url and of the generic
   adapter: every occurrence, case-sensitive *)
ReplaceWww(s) == SelectSeq(s, LAMBDA t : t # "www.")

-----------------------------------------------------------------------------
(* Adapter registry *)

EbayAdapter == [name |-> "EbayAdapter",
                domains |-> << <<"ebay.com">>, <<"www.", "ebay.com">> >>]
GenericAdapter == [name |-> "GenericAdapter", domains |-> << <<"*">> >>]

Contains(list, x) == \E k \in 1..Len(list) : list[k] = x

_register_adapters == <<EbayAdapter, GenericAdapter>>

(* the registry falling back to the first adapter instead of the last *)
RECURSIVE FindFrom_first(_, _, _)
FindFrom_first(as, domain, k) ==
    IF k > Len(as) THEN as[1]
    ELSE IF Contains(as[k].domains, domain) THEN as[k]
    ELSE FindFrom_first(as, domain, k + 1)

RECURSIVE FindFrom(_, _, _)
FindFrom(as, domain, k) ==
    IF k > Len(as) THEN as[Len(as)]
    ELSE IF Contains(as[k].domains, domain) THEN as[k]
    ELSE FindFrom(as, domain, k + 1)

find_adapter(as, url) == FindFrom(as, _extract_domain(url), 1)

(* the fallback with the title left out *)
_get_fallback_result_untitled(url) ==
    [title |-> None, image_url |-> None,
     site_name |-> Some(_extract_domain(url)),
     currency |-> "USD", price |-> None, flags |-> {}]

_get_fallback_result(url) ==
    [title |-> Some(url), image_url |-> None,
     site_name |-> Some(_extract_domain(url)),
     currency |-> "USD", price |-> None, flags |-> {}]

-----------------------------------------------------------------------------
(* EbayAdapter._parse_price_text.  A text is a sequence of characters, with
   a currency word ("US", "GBP", "EUR", "USD", in either case) or any other
   word as one token.  A pattern is the sequence of its elements: a literal
   token, "\\s*" or "NUM" for the
   capture group \d+\.?\d* . *)

Digits == {"0", "1", "2", "3", "4", "5", "6", "7", "8", "9"}

(* re.IGNORECASE on the tokens of the alphabet *)
UpperToken(t) ==
    CASE t = "us" -> "US" [] t = "gbp" -> "GBP" [] t = "eur" -> "EUR"
      [] t = "usd" -> "USD" [] OTHER -> t

patterns ==
    << <<"US", "\\s*", "$", "NUM">>,
       <<"GBP", "\\s*", "NUM">>,
       <<"EUR", "\\s*", "NUM">>,
       <<"$", "NUM">>,
       <<"NUM", "\\s*", "USD">>,
       <<"NUM", "\\s*", "GBP">>,
       <<"NUM", "\\s*", "EUR">> >>

(* text.replace(",", "") with the comma left in place *)
RemoveCommas_kept(text) == text

RemoveCommas(text) == SelectSeq(text, LAMBDA c : c # ",")

RECURSIVE Strip(_)
Strip(text) ==
    IF text = <<>> THEN text
    ELSE IF Head(text) = " " THEN Strip(Tail(text))
    ELSE IF text[Len(text)] = " " THEN Strip(SubSeq(text, 1, Len(text) - 1))
    ELSE text

(* \d* from position i: the last position of the run, i - 1 when empty *)
RECURSIVE DigitRunEnd(_, _)
DigitRunEnd(t, i) ==
    IF i <= Len(t) /\ t[i] \in Digits THEN DigitRunEnd(t, i + 1) ELSE i - 1

(* \d+\.?\d* from position i, greedy: its last position, 0 when t[i] is no
   digit.  A shorter capture is followed by a digit or a point, which no
   pattern element after the capture accepts, so only the longest one can
   be part of a match. *)
NumberEnd(t, i) ==
    IF i > Len(t) \/ t[i] \notin Digits THEN 0
    ELSE LET e == DigitRunEnd(t, i)
         IN  IF e < Len(t) /\ t[e + 1] = "." THEN DigitRunEnd(t, e + 2)
             ELSE e

RECURSIVE SkipSpaces(_, _)
SkipSpaces(t, i) ==
    IF i <= Len(t) /\ t[i] = " " THEN SkipSpaces(t, i + 1) ELSE i

(* the elements k.. of a pattern matched at position i: the capture, as
   Some(<<from, to>>), or None *)
RECURSIVE MatchFrom(_, _, _, _, _)
MatchFrom(pattern, k, t, i, cap) ==
    IF k > Len(pattern) THEN Some(cap)
    ELSE IF pattern[k] = "\\s*"
         THEN MatchFrom(pattern, k + 1, t, SkipSpaces(t, i), cap)
    ELSE IF pattern[k] = "NUM"
         THEN IF NumberEnd(t, i) = 0 THEN None
              ELSE MatchFrom(pattern, k + 1, t, NumberEnd(t, i) + 1,
                             <<i, NumberEnd(t, i)>>)
    ELSE IF i <= Len(t) /\ UpperToken(t[i]) = pattern[k]
         THEN MatchFrom(pattern, k + 1, t, i + 1, cap)
    ELSE None

MatchAt(pattern, t, i) == MatchFrom(pattern, 1, t, i, <<>>)

(* re.search: the leftmost match; match.group(1) as text *)
Search(pattern, t) ==
    LET starts == {i \in 1..Len(t) : MatchAt(pattern, t, i) # None}
    IN  IF starts = {} THEN None
        ELSE LET i == CHOOSE j \in starts : \A l \in starts : j <= l
                 cap == TheValue(MatchAt(pattern, t, i))
             IN  Some(SubSeq(t, cap[1], cap[2]))

RECURSIVE DropLeadingZeros(_)
DropLeadingZeros(ds) ==
    IF ds # <<>> /\ Head(ds) = "0" THEN DropLeadingZeros(Tail(ds)) ELSE ds

RECURSIVE DropTrailingZeros(_)
DropTrailingZeros(ds) ==
    IF ds # <<>> /\ ds[Len(ds)] = "0"
    THEN DropTrailingZeros(SubSeq(ds, 1, Len(ds) - 1))
    ELSE ds

(* float() of a capture: the number it writes, as the digits of its whole
   part without leading zeros and those of its fraction without trailing
   zeros, so that equal numbers are equal values.  Every capture of the
   group \d+\.?\d* is a numeral float() accepts. *)
Float(s) ==
    LET point == {k \in 1..Len(s) : s[k] = "."}
        p == IF point = {} THEN Len(s) + 1 ELSE CHOOSE k \in point : TRUE
    IN  [units |-> DropLeadingZeros(SubSeq(s, 1, p - 1)),
         decimals |-> DropTrailingZeros(SubSeq(s, p + 1, Len(s)))]

Zero == [units |-> <<>>, decimals |-> <<>>]

(* the test of line 113 passing whatever the price *)
Positive_any(price) == TRUE

Positive(price) == price # Zero

CurrencyOf(pattern) ==
    IF Contains(pattern, "GBP") THEN "GBP"
    ELSE IF Contains(pattern, "EUR") THEN "EUR"
    ELSE "USD"

RECURSIVE ParseFrom(_, _)
ParseFrom(t, k) ==
    IF k > Len(patterns) THEN None
    ELSE LET match == Search(patterns[k], t)
         IN  IF match # None /\ Positive(Float(TheValue(match)))
             THEN Some([price |-> Float(TheValue(match)),
                        currency |-> CurrencyOf(patterns[k])])
             ELSE ParseFrom(t, k + 1)

_parse_price_text(text) ==
    IF text = <<>> THEN None
    ELSE ParseFrom(Strip(RemoveCommas(text)), 1)

-----------------------------------------------------------------------------
(* Adapters.  A page is what the page handle answers: fails is the set of
   its reads that raise ("meta": the query of a meta tag, "selector": the
   query of a price selector, "body": page.inner_text("body"), "title":
   page.title()); og maps an OpenGraph property to its content; doc_title
   is page.title(); selector_price is what the first price selector with a
   parsing text gives and body_price what the body text parses to; phrases
   are the lower-cased phrases of the body text.  A price is a number of
   thousandths of the currency unit. *)

SnapshotMills == {1, 10000}

Reads == {"meta", "selector", "body", "title"}

DeadPage == [fails |-> Reads, og_title |-> None, og_image |-> None,
             og_site_name |-> None, doc_title |-> <<>>,
             selector_price |-> None, body_price |-> None, phrases |-> {}]
BarePage == [fails |-> {}, og_title |-> None, og_image |-> None,
             og_site_name |-> None, doc_title |-> <<"Page">>,
             selector_price |-> None, body_price |-> None, phrases |-> {}]
FullPage(m) == [fails |-> {}, og_title |-> Some(<<"Listing">>),
                og_image |-> Some(<<"img">>), og_site_name |-> None,
                doc_title |-> <<"Page">>,
                selector_price |-> Some([price |-> m, currency |-> "USD"]),
                body_price |-> None,
                phrases |-> {"free shipping"}]
Pages == {DeadPage, BarePage} \cup {FullPage(m) : m \in SnapshotMills}

_get_meta_property(page, field) ==
    IF "meta" \in page.fails THEN None ELSE page[field]

_extract_price(page) ==
    IF "selector" \notin page.fails /\ page.selector_price # None
    THEN page.selector_price
    ELSE IF "body" \notin page.fails THEN page.body_price
    ELSE None

_extract_flags(page) ==
    IF "body" \in page.fails THEN {}
    ELSE (IF page.phrases \cap {"best offer", "make offer"} # {}
          THEN {"accepts_offers"} ELSE {})
         \cup
         (IF "free shipping" \in page.phrases THEN {"free_shipping"} ELSE {})

EbayAdapter_scrape(page, url) ==
    LET price_info == _extract_price(page)
    IN  [title |-> _get_meta_property(page, "og_title"),
         image_url |-> _get_meta_property(page, "og_image"),
         site_name |-> Some(<<"eBay">>),
         currency |-> IF price_info # None THEN TheValue(price_info).currency
                      ELSE "USD",
         price |-> IF price_info # None THEN Some(TheValue(price_info).price)
                   ELSE None,
         flags |-> _extract_flags(page)]

(* the site_name fallback of lines 35-38 taken before the title fallback of
   lines 31-32 *)
GenericAdapter_scrape_sitefirst(page, url) ==
    LET og_title == _get_meta_property(page, "og_title")
        og_site == _get_meta_property(page, "og_site_name")
        site_name == IF TruthyText(og_site) \/ UrlparseRaises(url)
                     THEN og_site
                     ELSE Some(ReplaceWww(Netloc(url)))
        title == IF TruthyText(og_title) \/ UrlparseRaises(url)
                    \/ "title" \in page.fails
                 THEN og_title
                 ELSE Some(page.doc_title)
    IN  [title |-> title,
         image_url |-> _get_meta_property(page, "og_image"),
         site_name |-> site_name,
         currency |-> "USD", price |-> None, flags |-> {}]

GenericAdapter_scrape(page, url) ==
    LET og_title == _get_meta_property(page, "og_title")
        og_site == _get_meta_property(page, "og_site_name")
        \* page.title() is read when og:title is empty; when it raises the
        \* rest of the try is skipped
        titleRaises == ~TruthyText(og_title) /\ "title" \in page.fails
        title == IF TruthyText(og_title) \/ titleRaises THEN og_title
                 ELSE Some(page.doc_title)
        site_name == IF titleRaises \/ TruthyText(og_site)
                        \/ UrlparseRaises(url)
                     THEN og_site
                     ELSE Some(ReplaceWww(Netloc(url)))
    IN  [title |-> title,
         image_url |-> _get_meta_property(page, "og_image"),
         site_name |-> site_name,
         currency |-> "USD", price |-> None, flags |-> {}]

scrape(adapter, page, url) ==
    IF adapter.name = "EbayAdapter" THEN EbayAdapter_scrape(page, url)
    ELSE GenericAdapter_scrape(page, url)

-----------------------------------------------------------------------------
(* fetch_listing: one step per awaited call.  fetch_listing runs inside
   check_single_item, so at most one fetch exists at a time.  No step runs
   while the watchlist handler, which never awaits, is between its query and
   its response. *)

batchVars == <<b_pc, b_queue, b_cur, b_listing, staged, b_targets,
               outcome>>
dbVars == <<items, prices, flags, targets>>
registryVars == <<adapters, r_url, r_adapter>>
unitVars == <<p_text, p_result, a_adapter, a_page, a_url, a_result>>
fetchVars == <<f_pc, f_url, f_adapter, f_result, f_exc, pw, browser, scraped,
               failed, hung>>

NoRows == None

FetchIdle ==
    /\ f_pc = "idle" /\ f_url = <<>> /\ f_adapter = None /\ f_result = None
    /\ f_exc = FALSE /\ pw = "none" /\ browser = "none" /\ scraped = None
    /\ failed = {} /\ hung = FALSE

(* line 61, and the state of a fresh call *)
FetchBegin(url) ==
    /\ f_pc' = "enter"
    /\ f_url' = url
    /\ f_adapter' = Some(find_adapter(adapters, url))
    /\ f_result' = None /\ f_exc' = FALSE /\ pw' = "none" /\ browser' = "none"
    /\ scraped' = None /\ failed' = {} /\ hung' = FALSE

(* the call has returned and its frame is gone *)
FetchEnd ==
    /\ f_pc' = "idle" /\ f_url' = <<>> /\ f_adapter' = None /\ f_result' = None
    /\ f_exc' = FALSE /\ pw' = "none" /\ browser' = "none" /\ scraped' = None
    /\ failed' = {} /\ hung' = FALSE

(* lines 86-88: the outer handler *)
OuterExcept(url) == [pc |-> "returned", result |-> Some(_get_fallback_result(url))]

(* lines 78-81: the inner handler *)
InnerExcept(url) == [pc |-> "finally", result |-> Some(_get_fallback_result(url))]

(* line 64: async_playwright().__aenter__ *)
PlaywrightStart ==
    /\ rows = NoRows
    /\ f_pc = "enter"
    /\ \E ok \in BOOLEAN :
         IF ok
         THEN /\ pw' = "started" /\ f_pc' = "launch"
              /\ UNCHANGED <<f_result, failed>>
         ELSE /\ f_pc' = OuterExcept(f_url).pc
              /\ f_result' = OuterExcept(f_url).result
              /\ failed' = failed \cup {"start"}
              /\ pw' = pw
    /\ UNCHANGED <<f_url, f_adapter, f_exc, browser, scraped, hung>>
    /\ UNCHANGED <<batchVars, dbVars, registryVars, unitVars, rows>>

(* line 66: p.chromium.launch *)
Launch ==
    /\ rows = NoRows
    /\ f_pc = "launch"
    /\ \E ok \in BOOLEAN :
         IF ok
         THEN /\ browser' = "open" /\ f_pc' = "new_page"
              /\ UNCHANGED <<f_exc, failed>>
         ELSE /\ f_pc' = "exit" /\ f_exc' = TRUE
              /\ failed' = failed \cup {"launch"}
              /\ browser' = browser
    /\ UNCHANGED <<f_url, f_adapter, f_result, pw, scraped, hung>>
    /\ UNCHANGED <<batchVars, dbVars, registryVars, unitVars, rows>>

(* line 67: browser.new_page, before the try of line 69 *)
NewPage ==
    /\ rows = NoRows
    /\ f_pc = "new_page"
    /\ \E ok \in BOOLEAN :
         IF ok
         THEN /\ f_pc' = "goto" /\ UNCHANGED <<f_exc, failed>>
         ELSE /\ f_pc' = "exit" /\ f_exc' = TRUE
              /\ failed' = failed \cup {"new_page"}
    /\ UNCHANGED <<f_url, f_adapter, f_result, pw, browser, scraped, hung>>
    /\ UNCHANGED <<batchVars, dbVars, registryVars, unitVars, rows>>

(* the page stops responding while it is navigated to or read *)
PageHangs ==
    /\ rows = NoRows
    /\ f_pc \in {"goto", "scrape"}
    /\ ~hung
    /\ hung' = TRUE
    /\ UNCHANGED <<f_pc, f_url, f_adapter, f_result, f_exc, pw, browser,
                   scraped, failed>>
    /\ UNCHANGED <<batchVars, dbVars, registryVars, unitVars, rows>>

(* line 71: page.goto(..., timeout=30000) returns, raises, or times out *)
Goto ==
    /\ rows = NoRows
    /\ f_pc = "goto"
    /\ \E ok \in BOOLEAN :
         /\ ok => ~hung
         /\ IF ok
            THEN /\ f_pc' = "scrape" /\ UNCHANGED <<f_result, failed>>
            ELSE /\ f_pc' = InnerExcept(f_url).pc
                 /\ f_result' = InnerExcept(f_url).result
                 /\ failed' = failed \cup {"goto"}
    /\ UNCHANGED <<f_url, f_adapter, f_exc, pw, browser, scraped, hung>>
    /\ UNCHANGED <<batchVars, dbVars, registryVars, unitVars, rows>>

(* lines 74-76: adapter.scrape; its reads carry no timeout, so they do not
   return while the page does not respond *)
Scrape ==
    /\ rows = NoRows
    /\ f_pc = "scrape"
    /\ ~hung
    /\ \E page \in Pages :
         LET result == scrape(TheValue(f_adapter), page, f_url)
         IN  /\ f_result' = Some(result)
             /\ scraped' = Some(result)
    /\ f_pc' = "finally"
    /\ UNCHANGED <<f_url, f_adapter, f_exc, pw, browser, failed, hung>>
    /\ UNCHANGED <<batchVars, dbVars, registryVars, unitVars, rows>>

(* lines 83-84: browser.close(); when it raises, the exception replaces the
   pending return value and the browser may or may not have gone *)
Close ==
    /\ rows = NoRows
    /\ f_pc = "finally"
    /\ \E ok \in BOOLEAN :
         IF ok
         THEN /\ browser' = "closed"
              /\ UNCHANGED <<f_result, f_exc, failed>>
         ELSE /\ browser' \in {"open", "closed"}
              /\ f_result' = None /\ f_exc' = TRUE
              /\ failed' = failed \cup {"close"}
    /\ f_pc' = "exit"
    /\ UNCHANGED <<f_url, f_adapter, pw, scraped, hung>>
    /\ UNCHANGED <<batchVars, dbVars, registryVars, unitVars, rows>>

(* line 64: async_playwright().__aexit__ stops the driver; then the pending
   return value is returned, or the pending exception reaches line 86 *)
PlaywrightExit ==
    /\ rows = NoRows
    /\ f_pc = "exit"
    /\ pw' = "stopped"
    /\ \E ok \in BOOLEAN :
         IF ok /\ ~f_exc
         THEN /\ f_pc' = "returned" /\ UNCHANGED <<f_result, failed>>
         ELSE /\ f_pc' = OuterExcept(f_url).pc
              /\ f_result' = OuterExcept(f_url).result
              /\ failed' = IF ok THEN failed ELSE failed \cup {"stop"}
    /\ f_exc' = FALSE
    /\ UNCHANGED <<f_url, f_adapter, browser, scraped, hung>>
    /\ UNCHANGED <<batchVars, dbVars, registryVars, unitVars, rows>>

-----------------------------------------------------------------------------
(* Persistence: the tables and the session of check_all_items *)

ItemIds == 1..NumItems

(* the tracked URLs: odd ids are eBay listings, even ids are not *)
ItemUrl(id) ==
    IF id % 2 = 1 THEN <<"https://", "www.", "ebay.com", "/itm/1">>
    ELSE <<"https://", "shop.example", "/itm/1">>

(* main.domain_from_url *)
domain_from_url(url) ==
    IF UrlparseRaises(url) THEN <<"unknown">> ELSE ReplaceWww(Netloc(url))

(* the row add_item inserts (lines 245-251); created_at orders the rows *)
NewItem(id, url, paused) ==
    [url |-> url, domain |-> domain_from_url(url), title |-> Some(url),
     image_url |-> None, site_name |-> None, currency |-> None,
     created_at |-> id, is_paused |-> paused]

NoStaged == [item |-> None, price |-> None, flag |-> None]

(* lines 108-117: the item as updated from the listing *)
UpdatedItem(item, listing) ==
    [item EXCEPT
       !.title = IF TruthyText(listing.title) THEN listing.title ELSE @,
       !.image_url = IF TruthyText(listing.image_url) THEN listing.image_url ELSE @,
       !.site_name = IF TruthyText(listing.site_name) THEN listing.site_name ELSE @,
       !.currency = Some(listing.currency)]

(* line 123: int(price * 100), price in thousandths of the unit *)
PriceCents(mills) == (mills * 100) \div 1000

(* a price record added whether or not a price was found *)
PriceToAdd_always(id, listing, ps) ==
    Some([item_id |-> id,
          price_cents |-> IF listing.price # None
                          THEN PriceCents(TheValue(listing.price)) ELSE 0,
          currency |-> listing.currency,
          fetched_at |-> Len(ps) + 1])

(* lines 121-131: the price record added when a price was found; fetched_at
   is a clock reading later than that of every stored record *)
PriceToAdd(id, listing, ps) ==
    IF listing.price # None
    THEN Some([item_id |-> id,
               price_cents |-> PriceCents(TheValue(listing.price)),
               currency |-> listing.currency,
               fetched_at |-> Len(ps) + 1])
    ELSE None

FirstIndex(table, id) ==
    IF \E k \in 1..Len(table) : table[k].item_id = id
    THEN CHOOSE k \in 1..Len(table) :
           /\ table[k].item_id = id
           /\ \A j \in 1..(k - 1) : table[j].item_id # id
    ELSE 0

(* lines 138-152: get or create the flag record and set the found flags *)
FlagToAdd(id, listing, fs) ==
    IF listing.flags # {}
    THEN LET k == FirstIndex(fs, id)
             rec == IF k > 0 THEN fs[k]
                    ELSE [item_id |-> id, free_shipping |-> None,
                          accepts_offers |-> None]
         IN  Some([rec EXCEPT
                     !.free_shipping =
                        IF "free_shipping" \in listing.flags THEN Some(TRUE) ELSE @,
                     !.accepts_offers =
                        IF "accepts_offers" \in listing.flags THEN Some(TRUE) ELSE @])
    ELSE None

Stage(id, listing) ==
    [item |-> Some(UpdatedItem(items[id], listing)),
     price |-> PriceToAdd(id, listing, prices),
     flag |-> FlagToAdd(id, listing, flags)]

(* session.commit(): the staged writes reach the tables *)
CommitItems(its, st, id) ==
    IF st.item # None THEN [its EXCEPT ![id] = TheValue(st.item)] ELSE its

CommitPrices(ps, st) ==
    IF st.price # None THEN Append(ps, TheValue(st.price)) ELSE ps

CommitFlags(fs, st, id) ==
    IF st.flag = None THEN fs
    ELSE IF FirstIndex(fs, id) > 0
         THEN [fs EXCEPT ![FirstIndex(fs, id)] = TheValue(st.flag)]
         ELSE Append(fs, TheValue(st.flag))

(* a rollback that keeps the staged writes in the session *)
RolledBack_kept(st) == st

(* session.rollback(): the staged writes are discarded *)
RolledBack(st) == NoStaged

(* line 90: the unpaused items, in primary-key order *)
RECURSIVE Unpaused(_, _)
Unpaused(its, k) ==
    IF k > NumItems THEN <<>>
    ELSE IF k \notin DOMAIN its \/ its[k].is_paused THEN Unpaused(its, k + 1)
    ELSE <<k>> \o Unpaused(its, k + 1)

Range(q) == {q[k] : k \in 1..Len(q)}

-----------------------------------------------------------------------------
(* check_all_items and check_single_item *)

(* lines 83-91, entered from the cron job (line 59) or from check_now
   (line 312): open a session and select the unpaused items *)
CheckAllItems_Start ==
    /\ rows = NoRows
    /\ b_pc = "idle"
    /\ Len(prices) + Len(Unpaused(items, 1)) <= MaxPrices
    /\ b_queue' = Unpaused(items, 1)
    /\ b_targets' = Range(Unpaused(items, 1))
    /\ outcome' = [i \in ItemIds |-> "none"]
    /\ b_pc' = "loop"
    /\ UNCHANGED <<b_cur, b_listing, staged>>
    /\ UNCHANGED <<dbVars, registryVars, unitVars, fetchVars, rows>>

(* lines 93-94 and 105: the loop takes the next item and awaits its fetch *)
CheckSingleItem_Begin(id) ==
    /\ rows = NoRows
    /\ b_pc = "loop"
    /\ b_queue # <<>>
    /\ id = Head(b_queue)
    /\ b_queue' = Tail(b_queue)
    /\ b_cur' = id
    /\ b_pc' = "fetching"
    /\ FetchBegin(items[id].url)
    /\ UNCHANGED <<b_listing, staged, b_targets, outcome>>
    /\ UNCHANGED <<dbVars, registryVars, unitVars, rows>>

(* lines 105-152: the fetch has returned; the updates are added to the
   session *)
CheckSingleItem_Stage ==
    /\ rows = NoRows
    /\ b_pc = "fetching"
    /\ f_pc = "returned"
    /\ b_listing' = f_result
    /\ staged' = Stage(b_cur, TheValue(f_result))
    /\ b_pc' = "commit"
    /\ FetchEnd
    /\ UNCHANGED <<b_queue, b_cur, b_targets, outcome>>
    /\ UNCHANGED <<dbVars, registryVars, unitVars, rows>>

(* line 154: session.commit() succeeds and check_single_item returns, or it
   raises into line 156 *)
CheckSingleItem_Commit ==
    /\ rows = NoRows
    /\ b_pc = "commit"
    /\ \E ok \in BOOLEAN :
         IF ok
         THEN /\ items' = CommitItems(items, staged, b_cur)
              /\ prices' = CommitPrices(prices, staged)
              /\ flags' = CommitFlags(flags, staged, b_cur)
              /\ staged' = NoStaged
              /\ outcome' = [outcome EXCEPT ![b_cur] = "committed"]
              /\ b_pc' = "loop" /\ b_cur' = 0 /\ b_listing' = None
         ELSE /\ b_pc' = "except"
              /\ UNCHANGED <<items, prices, flags, staged, outcome, b_cur,
                             b_listing>>
    /\ UNCHANGED <<b_queue, b_targets>>
    /\ UNCHANGED <<targets, registryVars, unitVars, fetchVars, rows>>

(* lines 156-158: the handler logs, rolls the session back and returns *)
CheckSingleItem_Rollback ==
    /\ rows = NoRows
    /\ b_pc = "except"
    /\ staged' = RolledBack(staged)
    /\ outcome' = [outcome EXCEPT ![b_cur] = "rolled_back"]
    /\ b_pc' = "loop" /\ b_cur' = 0 /\ b_listing' = None
    /\ UNCHANGED <<b_queue, b_targets>>
    /\ UNCHANGED <<dbVars, registryVars, unitVars, fetchVars, rows>>

(* lines 98-99: the loop is exhausted and the session is closed *)
CheckAllItems_Finish ==
    /\ rows = NoRows
    /\ b_pc = "loop"
    /\ b_queue = <<>>
    /\ b_pc' = "done"
    /\ UNCHANGED <<b_queue, b_cur, b_listing, staged, b_targets,
                   outcome>>
    /\ UNCHANGED <<dbVars, registryVars, unitVars, fetchVars, rows>>

(* check_all_items returns to the scheduler or to check_now (line 313) *)
CheckAllItems_Return ==
    /\ rows = NoRows
    /\ b_pc = "done"
    /\ b_pc' = "idle"
    /\ UNCHANGED <<b_queue, b_cur, b_listing, staged, b_targets,
                   outcome>>
    /\ UNCHANGED <<dbVars, registryVars, unitVars, fetchVars, rows>>

-----------------------------------------------------------------------------
(* build_watchlist_rows *)

SparklineSize == 10

Min(a, b) == IF a < b THEN a ELSE b
Abs(n) == IF n < 0 THEN 0 - n ELSE n

(* ORDER BY fetched_at ASC: a stable insertion sort *)
RECURSIVE InsertByFetchedAt(_, _)
InsertByFetchedAt(sorted, r) ==
    IF sorted = <<>> THEN <<r>>
    ELSE IF sorted[Len(sorted)].fetched_at <= r.fetched_at
         THEN Append(sorted, r)
         ELSE Append(InsertByFetchedAt(SubSeq(sorted, 1, Len(sorted) - 1), r),
                     sorted[Len(sorted)])

RECURSIVE OrderByFetchedAt(_)
OrderByFetchedAt(rs) ==
    IF rs = <<>> THEN <<>>
    ELSE InsertByFetchedAt(OrderByFetchedAt(SubSeq(rs, 1, Len(rs) - 1)),
                           rs[Len(rs)])

(* line 175: the price history of one item, oldest first *)
PriceHistory(ps, id) ==
    OrderByFetchedAt(SelectSeq(ps, LAMBDA r : r.item_id = id))

(* line 168: ORDER BY created_at DESC *)
RECURSIVE ItemsByCreatedDesc(_, _)
ItemsByCreatedDesc(its, ids) ==
    IF ids = {} THEN <<>>
    ELSE LET newest == CHOOSE i \in ids :
                         \A j \in ids :
                            \/ its[j].created_at < its[i].created_at
                            \/ (its[j].created_at = its[i].created_at /\ i <= j)
         IN  <<newest>> \o ItemsByCreatedDesc(its, ids \ {newest})

(* line 190: f"{delta_pct:+.1f}%", the quotient rounded to one decimal, ties
   to even, computed on the exact quotient *)
RoundedTenths(num, den) ==
    LET q == (num * 1000) \div den
        r == (num * 1000) % den
    IN  IF 2 * r > den THEN q + 1
        ELSE IF 2 * r = den THEN q + (q % 2)
        ELSE q

FormatDelta(current, first) ==
    LET tenths == RoundedTenths(Abs(current - first), first)
    IN  (IF current - first < 0 THEN "-" ELSE "+")
        \o ToString(tenths \div 10) \o "." \o ToString(tenths % 10) \o "%"

(* line 187: the dash shown when there is no delta *)
Sentinel == "--"

(* lines 183-190; a cents value of 0 is falsy like None *)
DeltaPct(hist) ==
    LET current_cents == IF hist # <<>> THEN Some(hist[Len(hist)].price_cents) ELSE None
        first_cents == IF hist # <<>> THEN Some(hist[1].price_cents) ELSE None
    IN  IF /\ current_cents # None /\ TheValue(current_cents) # 0
           /\ first_cents # None /\ TheValue(first_cents) # 0
           /\ TheValue(first_cents) > 0
        THEN FormatDelta(TheValue(current_cents), TheValue(first_cents))
        ELSE Sentinel

(* the first ten prices instead of the last ten *)
RecentPrices_oldest(hist) == SubSeq(hist, 1, Min(Len(hist), SparklineSize))

(* line 197: prices[-10:] *)
RecentPrices(hist) ==
    SubSeq(hist, Len(hist) - Min(Len(hist), SparklineSize) + 1, Len(hist))

(* line 199: float(price_cents) / 100.0 *)
Major(cents) == [units |-> cents \div 100, hundredths |-> cents % 100]

(* lines 192-204 *)
Sparkline(hist) ==
    LET recent_prices == RecentPrices(hist)
    IN  [labels |-> [k \in 1..Len(recent_prices) |-> ToString(k - 1)],
         data |-> [k \in 1..Len(recent_prices) |->
                     Major(recent_prices[k].price_cents)]]

(* lines 179-180 and 215 *)
TargetCents(ts, id) ==
    IF FirstIndex(ts, id) > 0 THEN ts[FirstIndex(ts, id)].target_cents ELSE None

(* lines 206-218 *)
WatchlistRow(its, ps, ts, id) ==
    LET hist == PriceHistory(ps, id)
    IN  [id |-> id,
         url |-> its[id].url,
         domain |-> its[id].domain,
         title |-> IF TruthyText(its[id].title) THEN TheValue(its[id].title)
                   ELSE its[id].url,
         site_name |-> IF TruthyText(its[id].site_name)
                       THEN TheValue(its[id].site_name) ELSE its[id].domain,
         image_url |-> its[id].image_url,
         current_cents |-> IF hist # <<>> THEN Some(hist[Len(hist)].price_cents)
                           ELSE None,
         target_cents |-> TargetCents(ts, id),
         delta_pct |-> DeltaPct(hist),
         sparkline |-> Sparkline(hist)]

build_watchlist_rows(its, ps, ts) ==
    LET order == ItemsByCreatedDesc(its, DOMAIN its)
    IN  [k \in 1..Len(order) |-> WatchlistRow(its, ps, ts, order[k])]

(* GET / (lines 223-231): the handler has no await, so it runs from the
   query to the response without another coroutine in between; it is
   entered while no batch runs or while the batch awaits a step of its fetch,
   the only places where check_all_items yields to the event loop *)
Index ==
    /\ rows = NoRows
    /\ b_pc = "idle" \/ (b_pc = "fetching" /\ f_pc # "returned")
    /\ rows' = Some(build_watchlist_rows(items, prices, targets))
    /\ UNCHANGED <<batchVars, dbVars, registryVars, unitVars, fetchVars>>

IndexRespond ==
    /\ rows # NoRows
    /\ rows' = NoRows
    /\ UNCHANGED <<batchVars, dbVars, registryVars, unitVars, fetchVars>>

-----------------------------------------------------------------------------
(* add_item and remove_item.  Both handlers run without an await, from
   their first query to their response; they are taken here between two
   batches. *)

(* Item.id of an inserted row: the default database is SQLite (db.py line
   9), which gives an INTEGER PRIMARY KEY one more than the largest id of
   the table *)
NextItemId(its) ==
    IF DOMAIN its = {} THEN 1
    ELSE (CHOOSE i \in DOMAIN its : \A j \in DOMAIN its : j <= i) + 1

(* the target form field: left out, 0, or a number of cents *)
TargetInputs == {None, Some(0), Some(900)}

InsertItem(its, id, row) ==
    [i \in DOMAIN its \cup {id} |-> IF i = id THEN row ELSE its[i]]

DeleteItem(its, id) == [i \in DOMAIN its \ {id} |-> its[i]]

(* POST /items (lines 233-272): the item is committed, then the target when
   the field is truthy; a commit that raises ends the handler without a
   response and leaves what was committed before it *)
add_item(target) ==
    /\ rows = NoRows
    /\ b_pc = "idle"
    /\ NextItemId(items) \in ItemIds
    /\ (target # None /\ TheValue(target) # 0) => Len(targets) < MaxTargets
    /\ \E ok1, ok2 \in BOOLEAN :
         LET id == NextItemId(items)
             wanted == target # None /\ TheValue(target) # 0
         IN  /\ items' = IF ok1
                         THEN InsertItem(items, id,
                                         NewItem(id, ItemUrl(id), FALSE))
                         ELSE items
             /\ targets' = IF ok1 /\ wanted /\ ok2
                           THEN Append(targets, [item_id |-> id,
                                                 target_cents |-> target])
                           ELSE targets
             /\ rows' = IF ok1 /\ (wanted => ok2)
                        THEN Some(build_watchlist_rows(items', prices,
                                                       targets'))
                        ELSE NoRows
    /\ UNCHANGED <<prices, flags, batchVars, registryVars, unitVars,
                   fetchVars>>

(* DELETE /items/{item_id} (lines 274-303): lines 287-289 select the
   related records and drop the result; line 292 deletes the item alone; a
   commit that raises ends the handler and leaves the tables as they were *)
remove_item(item_id) ==
    /\ rows = NoRows
    /\ b_pc = "idle"
    /\ IF item_id \in DOMAIN items
       THEN \E ok \in BOOLEAN :
              /\ items' = IF ok THEN DeleteItem(items, item_id) ELSE items
              /\ rows' = IF ok
                         THEN Some(build_watchlist_rows(items', prices,
                                                        targets))
                         ELSE NoRows
       ELSE /\ items' = items
            /\ rows' = Some(build_watchlist_rows(items, prices, targets))
    /\ UNCHANGED <<prices, flags, targets, batchVars, registryVars, unitVars,
                   fetchVars>>

-----------------------------------------------------------------------------
(* The engine: the batch check and the watchlist page over one database *)

InitRegistry ==
    /\ adapters = _register_adapters
    /\ r_url = <<>>
    /\ r_adapter = None

UnitIdle ==
    /\ p_text = <<>> /\ p_result = None
    /\ a_adapter = None /\ a_page = None /\ a_url = <<>> /\ a_result = None

InitBatch ==
    /\ b_pc = "idle" /\ b_queue = <<>> /\ b_cur = 0
    /\ b_listing = None /\ staged = NoStaged /\ b_targets = {}
    /\ outcome = [i \in ItemIds |-> "none"]

Init ==
    /\ InitRegistry
    /\ \E paused \in [ItemIds -> BOOLEAN] :
         items = [i \in ItemIds |-> NewItem(i, ItemUrl(i), paused[i])]
    /\ prices = <<>> /\ flags = <<>> /\ targets = <<>>
    /\ InitBatch
    /\ FetchIdle
    /\ rows = NoRows
    /\ UnitIdle

Next ==
    \/ CheckAllItems_Start
    \/ \E id \in ItemIds : CheckSingleItem_Begin(id)
    \/ PlaywrightStart
    \/ Launch
    \/ NewPage
    \/ PageHangs
    \/ Goto
    \/ Scrape
    \/ Close
    \/ PlaywrightExit
    \/ CheckSingleItem_Stage
    \/ CheckSingleItem_Commit
    \/ CheckSingleItem_Rollback
    \/ CheckAllItems_Finish
    \/ CheckAllItems_Return
    \/ Index
    \/ IndexRespond

Spec == Init /\ [][Next]_vars

(* The same engine under the scheduling of the event loop: a coroutine that
   is ready again and again is eventually resumed, and a response that is
   ready is delivered.  Triggers, requests and the page are not forced. *)
EngineStep ==
    \/ \E id \in ItemIds : CheckSingleItem_Begin(id)
    \/ PlaywrightStart \/ Launch \/ NewPage \/ Goto \/ Scrape \/ Close
    \/ PlaywrightExit
    \/ CheckSingleItem_Stage \/ CheckSingleItem_Commit
    \/ CheckSingleItem_Rollback
    \/ CheckAllItems_Finish \/ CheckAllItems_Return

LiveSpec == Init /\ [][Next]_vars /\ SF_vars(EngineStep) /\ WF_vars(IndexRespond)

-----------------------------------------------------------------------------
(* The registry as a function: find_adapter applied to enumerated URLs *)

UrlInputs ==
    {<<sch>> \o host \o path :
        sch \in Schemes,
        host \in SeqsUpTo(HostTokens, MaxHostTokens),
        path \in {<<>>} \cup {<<q>> : q \in Paths}}

DefaultItems == [i \in ItemIds |-> NewItem(i, ItemUrl(i), FALSE)]

RegistryInit ==
    /\ adapters = _register_adapters
    /\ r_url \in UrlInputs
    /\ r_adapter = None
    /\ items = DefaultItems
    /\ prices = <<>> /\ flags = <<>> /\ targets = <<>>
    /\ InitBatch
    /\ FetchIdle
    /\ rows = NoRows
    /\ UnitIdle

Resolve ==
    /\ r_adapter = None
    /\ r_adapter' = Some(find_adapter(adapters, r_url))
    /\ UNCHANGED <<adapters, r_url, batchVars, dbVars, fetchVars, rows, unitVars>>

RegistryNext == Resolve

RegistrySpec == RegistryInit /\ [][RegistryNext]_vars

-----------------------------------------------------------------------------
(* The aggregator as a function: build_watchlist_rows applied to enumerated
   price tables.  A table holds its records in insertion order, and
   fetched_at grows with it. *)

AggCents == {0, 1000, 1200}
LongCents == {1000, 1200}

ShortTables ==
    UNION {[1..n -> ItemIds \X AggCents] : n \in 0..MaxShort}
LongTables ==
    UNION {[1..n -> {1} \X LongCents] : n \in 0..MaxHist}

PriceTable(t) ==
    [k \in 1..Len(t) |-> [item_id |-> t[k][1], price_cents |-> t[k][2],
                          currency |-> "USD", fetched_at |-> k]]

TargetTables == {<<>>, <<[item_id |-> 1, target_cents |-> Some(900)]>>}

AggInit ==
    /\ InitRegistry
    /\ items = DefaultItems
    /\ \E t \in ShortTables \cup LongTables : prices = PriceTable(t)
    /\ flags = <<>>
    /\ targets \in TargetTables
    /\ InitBatch
    /\ FetchIdle
    /\ rows = NoRows
    /\ UnitIdle

AggNext == Index \/ IndexRespond

AggSpec == AggInit /\ [][AggNext]_vars

-----------------------------------------------------------------------------
(* The price parser as a function: _parse_price_text applied to enumerated
   texts, each the concatenation of at most MaxChunks chunks *)

DollarAmount == <<"$", "1", "2", "3", ".", "4", "5">>

Chunks ==
    { DollarAmount,
      <<"US", " ">>,
      <<"us", " ">>,
      <<"GBP", " ", "5", ".", "0", "0", " ">>,
      <<"GBP", " ", "0", " ">>,
      <<" ", "EUR">>,
      <<" ", "USD">>,
      <<"$", "0", ".", "0", "0", " ">>,
      <<"5", ".", "0", "0">>,
      <<"4", "5", ".", "0", "0">>,
      <<"1", ",", "2", "3", "4", ".", "0", "0">>,
      <<"6">>, <<",">>, <<" ">>, <<"-">>, <<"$">>, <<"x">> }

RECURSIVE Flatten(_)
Flatten(cs) == IF cs = <<>> THEN <<>> ELSE Head(cs) \o Flatten(Tail(cs))

Texts == {Flatten(cs) : cs \in SeqsUpTo(Chunks, MaxChunks)}

ParserInit ==
    /\ InitRegistry
    /\ items = DefaultItems
    /\ prices = <<>> /\ flags = <<>> /\ targets = <<>>
    /\ InitBatch
    /\ FetchIdle
    /\ rows = NoRows
    /\ p_text \in Texts
    /\ p_result = None
    /\ a_adapter = None /\ a_page = None /\ a_url = <<>> /\ a_result = None

ParsePriceText ==
    /\ p_result = None
    /\ p_result' = Some(_parse_price_text(p_text))
    /\ UNCHANGED <<registryVars, batchVars, dbVars, fetchVars, rows, p_text,
                   a_adapter, a_page, a_url, a_result>>

ParserNext == ParsePriceText

ParserSpec == ParserInit /\ [][ParserNext]_vars

-----------------------------------------------------------------------------
(* The adapters as functions: scrape applied to enumerated pages, each read
   of which works or raises whatever the page holds *)

AdapterPages ==
    [fails : SUBSET Reads,
     og_title : {None, Some(<<>>), Some(<<"Listing">>)},
     og_image : {None, Some(<<"img">>)},
     og_site_name : {None, Some(<<"Shop">>)},
     doc_title : {<<"Page">>},
     selector_price : {None, Some([price |-> 10000, currency |-> "USD"])},
     body_price : {None, Some([price |-> 1, currency |-> "GBP"])},
     phrases : SUBSET {"best offer", "free shipping"}]

AdapterInit ==
    /\ InitRegistry
    /\ items = DefaultItems
    /\ prices = <<>> /\ flags = <<>> /\ targets = <<>>
    /\ InitBatch
    /\ FetchIdle
    /\ rows = NoRows
    /\ p_text = <<>> /\ p_result = None
    /\ \E k \in 1..Len(adapters) : a_adapter = Some(adapters[k])
    /\ a_page \in AdapterPages
    /\ a_url \in {ItemUrl(1), ItemUrl(2)}
    /\ a_result = None

ScrapePage ==
    /\ a_result = None
    /\ a_result' = Some(scrape(TheValue(a_adapter), a_page, a_url))
    /\ UNCHANGED <<registryVars, batchVars, dbVars, fetchVars, rows, p_text,
                   p_result, a_adapter, a_page, a_url>>

AdapterNext == ScrapePage

AdapterSpec == AdapterInit /\ [][AdapterNext]_vars

-----------------------------------------------------------------------------
(* The store under add, check and remove, from the empty database *)

StoreInit ==
    /\ InitRegistry
    /\ items = <<>>
    /\ prices = <<>> /\ flags = <<>> /\ targets = <<>>
    /\ InitBatch
    /\ FetchIdle
    /\ rows = NoRows
    /\ UnitIdle

StoreNext ==
    \/ \E target \in TargetInputs : add_item(target)
    \/ \E item_id \in ItemIds : remove_item(item_id)
    \/ Next

StoreSpec == StoreInit /\ [][StoreNext]_vars

-----------------------------------------------------------------------------
(* Properties *)

(* C1: fetch_listing never raises; when any step of the fetch failed
   (driver start, launch, new page, navigation, close, driver stop) it
   returns the fallback snapshot with title = url, site_name = extracted
   domain, currency "USD", no price, no image and no flags, and when nothing
   failed it returns exactly what the adapter's scrape returned. *)
C1_FetchNeverRaises ==
    /\ f_pc \in {"idle", "enter", "launch", "new_page", "goto", "scrape",
                 "finally", "exit", "returned"}
    /\ f_pc = "returned" =>
         /\ ~f_exc
         /\ f_result # None
         /\ IF failed # {}
            THEN LET r == TheValue(f_result)
                 IN  /\ r.title = Some(f_url)
                     /\ r.site_name = Some(_extract_domain(f_url))
                     /\ r.currency = "USD"
                     /\ r.price = None
                     /\ r.image_url = None
                     /\ r.flags = {}
            ELSE scraped # None /\ f_result = scraped

(* a fetch has returned the fallback after a scrape whose result the failing
   close discarded, and another after a failed navigation *)
C1_Witness ==
    /\ f_pc = "returned"
    /\ failed = {"close"}
    /\ scraped # None
    /\ f_result = Some(_get_fallback_result(f_url))
    /\ f_result # scraped

(* C2: once the browser has been launched it is closed before fetch_listing
   returns, on success, new-page failure, navigation failure and adapter
   exception alike (a close that itself raised is left aside). *)
C2_BrowserClosedOnReturn ==
    (f_pc = "returned" /\ browser # "none" /\ "close" \notin failed)
        => browser = "closed"

(* C3: every call of fetch_listing eventually returns, in whichever phase
   the page stops responding. *)
C3_FetchEventuallyReturns == (f_pc = "enter") ~> (f_pc = "returned")

(* C4: a failing commit leaves every table as it was, the handler rolls the
   item's staged writes back and hands control back to the loop with the
   remaining items still queued, and a batch that ends has checked every
   item that was unpaused when it started. *)
C4_Done ==
    b_pc = "done" =>
        /\ b_targets = {i \in ItemIds : ~items[i].is_paused}
        /\ \A i \in b_targets : outcome[i] \in {"committed", "rolled_back"}

C4_Step ==
    /\ b_pc = "except" =>
         /\ UNCHANGED dbVars
         /\ staged' = NoStaged
         /\ b_pc' = "loop"
         /\ b_queue' = b_queue
         /\ outcome' = [outcome EXCEPT ![b_cur] = "rolled_back"]
    /\ (b_pc = "commit" /\ b_pc' = "except") => UNCHANGED dbVars
    /\ \A i \in ItemIds :
         (outcome[i] = "committed" /\ outcome'[i] = "committed" /\ i # b_cur)
            => items'[i] = items[i]
    /\ b_pc # "idle" =>
         \A i \in ItemIds : outcome[i] # "none" => outcome'[i] = outcome[i]
    /\ C4_Done'

C5_PendingFetchCanStart ==
    \A j \in ItemIds :
        (/\ rows = NoRows
         /\ f_pc \notin {"idle", "returned"}
         /\ j \in Range(b_queue))
            => ENABLED CheckSingleItem_Begin(j)

(* C6: find_adapter returns exactly one registered adapter: the first in
   registration order whose domain list contains the extracted domain of
   the URL, and the wildcard adapter when none does; the wildcard adapter
   is registered, and registered last. *)
C6_Matching(domain) ==
    {k \in 1..Len(adapters) : domain \in Range(adapters[k].domains)}

C6_RegistryTotal ==
    /\ adapters # <<>>
    /\ adapters[Len(adapters)].domains = << <<"*">> >>
    /\ \A k \in 1..(Len(adapters) - 1) : <<"*">> \notin Range(adapters[k].domains)
    /\ r_adapter # None =>
         LET m == C6_Matching(_extract_domain(r_url))
             a == TheValue(r_adapter)
         IN  /\ a \in Range(adapters)
             /\ m # {} => a = adapters[CHOOSE k \in m : \A j \in m : k <= j]
             /\ m = {} => a = adapters[Len(adapters)]

(* a URL whose host is WWW.EBAY.com resolved to the eBay adapter, at a
   state where resolution has run *)
C6_Witness ==
    /\ r_adapter # None
    /\ Netloc(r_url) = <<"WWW.", "EBAY.com">>
    /\ TheValue(r_adapter).name = "EbayAdapter"

(* the rows of the response, with the history each was built from *)
RowHistory(row) == SelectSeq(prices, LAMBDA r : r.item_id = row.id)

Chronological(hist) ==
    \A k \in 1..Len(hist) : \A j \in k..Len(hist) :
        hist[k].fetched_at <= hist[j].fetched_at

(* C7: an item with exactly one price record gets the "no data" sentinel as
   its delta, and an item with no record gets no current_cents and the
   sentinel. *)
C7_SinglePointIsSentinel ==
    rows # NoRows =>
        \A k \in 1..Len(TheValue(rows)) :
            LET row == TheValue(rows)[k]
                hist == RowHistory(row)
            IN  /\ Len(hist) = 1 => row.delta_pct = Sentinel
                /\ Len(hist) = 0 =>
                     row.current_cents = None /\ row.delta_pct = Sentinel

(* C8: an item whose first price is > 0 gets the signed one-decimal
   percentage (last - first) / first * 100 for every last price >= 0, so
   [1000, 1200] gives "+20.0%"; the sentinel appears only when the history
   is empty or the first price is 0. *)
C8_DeltaIsPercentage ==
    rows # NoRows =>
        \A k \in 1..Len(TheValue(rows)) :
            LET row == TheValue(rows)[k]
                hist == RowHistory(row)
                first == hist[1].price_cents
                last == hist[Len(hist)].price_cents
            IN  /\ (hist # <<>> /\ first > 0 /\ last >= 0) =>
                     row.delta_pct = FormatDelta(last, first)
                /\ (hist # <<>> /\ first = 1000 /\ last = 1200) =>
                     row.delta_pct = "+20.0%"
                /\ row.delta_pct = Sentinel => (hist = <<>> \/ first = 0)

(* C9: the sparkline of a history of n records has min(n, 10) points: its
   values are the prices of the min(n, 10) most recent records, oldest
   first, in major units, and its labels are "0" .. "min(n, 10) - 1". *)
C9_SparklineWindow ==
    rows # NoRows =>
        \A k \in 1..Len(TheValue(rows)) :
            LET row == TheValue(rows)[k]
                hist == RowHistory(row)
                n == Len(hist)
                m == IF n < 10 THEN n ELSE 10
                sp == row.sparkline
            IN  /\ Chronological(hist)
                /\ Len(sp.data) = m
                /\ Len(sp.labels) = m
                /\ \A q \in 1..m :
                     /\ sp.labels[q] = ToString(q - 1)
                     /\ sp.data[q].units * 100 + sp.data[q].hundredths
                          = hist[n - m + q].price_cents
                     /\ sp.data[q].hundredths \in 0..99

(* rows were built for a history of more than ten records whose oldest
   record differs from the oldest record shown *)
C9_Witness ==
    /\ rows # NoRows
    /\ \E k \in 1..Len(TheValue(rows)) :
         LET row == TheValue(rows)[k]
             hist == RowHistory(row)
         IN  /\ Len(hist) > 10
             /\ Len(row.sparkline.data) = 10
             /\ hist[1].price_cents # hist[Len(hist) - 9].price_cents

(* C10: no step changes or removes a stored price record; table price
   changes only when check_single_item commits, by one appended record of
   the item being checked, and only when the fetched snapshot carries a
   price; a rolled-back check and the watchlist page append nothing. *)
C10_Step ==
    \/ prices' = prices
    \/ /\ Len(prices') = Len(prices) + 1
       /\ SubSeq(prices', 1, Len(prices)) = prices
       /\ b_pc = "commit" /\ b_pc' = "loop"
       /\ prices'[Len(prices')].item_id = b_cur
       /\ b_listing # None
       /\ TheValue(b_listing).price # None
       /\ prices'[Len(prices')].price_cents
            = TheValue(TheValue(b_listing).price) \div 10

C10_PricesAppendOnly == [][C10_Step]_vars

(* one check has appended a price record and another, whose snapshot had no
   price, has committed without appending *)
C10_Witness ==
    /\ Len(prices) = 1
    /\ b_pc = "done"
    /\ \A i \in ItemIds : outcome[i] = "committed"

(* the capture of the leftmost match of pattern k in t, as a number *)
CaptureOf(t, k) == Float(TheValue(Search(patterns[k], t)))

(* the patterns whose leftmost match in t captures an amount above zero *)
PositivePatterns(t) ==
    {k \in 1..Len(patterns) :
        Search(patterns[k], t) # None /\ CaptureOf(t, k) # Zero}

(* C11: _parse_price_text returns, for every text, either None or an amount
   above zero with a currency among USD, GBP and EUR: a pattern whose
   capture is zero is passed over and the next pattern of the list is
   tried, so the result is that of the first pattern that captures an
   amount above zero, and None when there is none.  The call always
   returns. *)
C11_ParsedPriceIsPositive ==
    \A r \in p_result :
        LET t == Strip(RemoveCommas(p_text))
            good == PositivePatterns(t)
        IN  /\ r # None =>
                 /\ TheValue(r).price # Zero
                 /\ TheValue(r).currency \in {"USD", "GBP", "EUR"}
            /\ IF good = {} THEN r = None
               ELSE LET k == CHOOSE j \in good : \A l \in good : j <= l
                    IN  r = Some([price |-> CaptureOf(t, k),
                                  currency |-> CurrencyOf(patterns[k])])

(* a text in which an earlier pattern captures zero and a later one gives
   the result *)
C11_Witness ==
    \E r \in p_result :
        LET t == Strip(RemoveCommas(p_text))
        IN  /\ r # None
            /\ \E k \in 1..Len(patterns) :
                  /\ Search(patterns[k], t) # None
                  /\ CaptureOf(t, k) = Zero
                  /\ \A j \in PositivePatterns(t) : k < j

(* the positions of text t at which the characters of s begin *)
Occurrences(s, t) ==
    {i \in 1..(Len(t) - Len(s) + 1) : SubSeq(t, i, i + Len(s) - 1) = s}

DollarResult ==
    Some([price |-> [units |-> <<"1", "2", "3">>, decimals |-> <<"4", "5">>],
          currency |-> "USD"])

(* the three worked examples: "US $1,234.00", "45.00 EUR" and a text
   without a digit *)
ParserExamples(r) ==
    /\ p_text = <<"US", " ", "$", "1", ",", "2", "3", "4", ".", "0", "0">>
         => r = Some([price |-> [units |-> <<"1", "2", "3", "4">>,
                                 decimals |-> <<>>],
                      currency |-> "USD"])
    /\ p_text = <<"4", "5", ".", "0", "0", " ", "EUR">>
         => r = Some([price |-> [units |-> <<"4", "5">>, decimals |-> <<>>],
                      currency |-> "EUR"])
    /\ (\A k \in 1..Len(p_text) : p_text[k] \notin Digits) => r = None

(* C12 as stated: every text that contains "$123.45", whatever surrounds
   it, parses to (123.45, USD); "US $1,234.00" parses to (1234.00, USD),
   "45.00 EUR" to (45.00, EUR), and a text without a price to None. *)
C12_DollarSubstringAlwaysParsed ==
    \A r \in p_result :
        /\ Occurrences(DollarAmount, p_text) # {} => r = DollarResult
        /\ ParserExamples(r)

(* "$123.45" at position i of t is the first "$" followed by a digit, no
   digit continues it, and every amount above zero that the patterns
   before the "$" pattern match anywhere in t is this one *)
DollarAmountDecides(t, i) ==
    /\ i \in Occurrences(DollarAmount, t)
    /\ i + Len(DollarAmount) <= Len(t) => t[i + Len(DollarAmount)] \notin Digits
    /\ \A j \in 1..(i - 1) : ~(t[j] = "$" /\ t[j + 1] \in Digits)
    /\ \A k \in 1..3 : \A j \in 1..Len(t) :
          \A cap \in MatchAt(patterns[k], t, j) :
              Float(SubSeq(t, cap[1], cap[2])) # Zero
                  => k = 1 /\ cap = <<i + 1, i + Len(DollarAmount) - 1>>

(* C12, amended: a text that contains "$123.45" parses to (123.45, USD)
   when, with the commas removed, that amount is the first "$" followed by
   a digit, no further digit continues it, and no other amount above zero
   follows a "US $", "GBP" or "EUR" prefix; the three examples hold as
   stated. *)
C12_DollarAmountParsed ==
    \A r \in p_result :
        /\ ( /\ Occurrences(DollarAmount, p_text) # {}
             /\ \E i \in 1..Len(p_text) :
                   DollarAmountDecides(Strip(RemoveCommas(p_text)), i) )
           => r = DollarResult
        /\ ParserExamples(r)

(* "$123.45" with text on both sides, a rejected "GBP 0" among it *)
C12_Witness ==
    /\ p_result = Some(DollarResult)
    /\ \E i \in Occurrences(DollarAmount, p_text) :
          /\ 1 < i /\ i + Len(DollarAmount) <= Len(p_text)
          /\ DollarAmountDecides(Strip(RemoveCommas(p_text)), i)
    /\ Search(patterns[2], p_text) # None

(* C13 as stated: when every read of the page raises, EbayAdapter.scrape
   and GenericAdapter.scrape return a snapshot whose title, image_url,
   site_name and price are None and whose flags are empty. *)
C13_DeadPageGivesAbsentFields ==
    \A r \in a_result :
        a_page.fails = Reads =>
            /\ r.title = None /\ r.image_url = None /\ r.site_name = None
            /\ r.price = None /\ r.flags = {}

(* C13, amended: when every read of the page raises, both adapters return a
   snapshot whose title, image_url and price are None, whose flags are
   empty and whose currency is the default USD; site_name is None from
   GenericAdapter and the constant "eBay" from EbayAdapter. *)
C13_DeadPageGivesDefaults ==
    \A r \in a_result :
        a_page.fails = Reads =>
            /\ r.title = None /\ r.image_url = None
            /\ r.price = None /\ r.flags = {}
            /\ r.currency = "USD"
            /\ r.site_name = IF a_adapter = Some(EbayAdapter)
                             THEN Some(<<"eBay">>) ELSE None

(* EbayAdapter has returned from a page that holds a title, a price and a
   flag phrase, none of which can be read *)
C13_Witness ==
    /\ a_result # None
    /\ a_adapter = Some(EbayAdapter)
    /\ a_page.fails = Reads
    /\ TruthyText(a_page.og_title)
    /\ a_page.selector_price # None
    /\ a_page.phrases # {}

(* the item ids the step removes from table item *)
RemovedIds == DOMAIN items \ DOMAIN items'

(* C14: when remove_item commits the removal of an item, no Price, Target
   or Flag record with that item_id remains in the store, whatever adds,
   checks and removals came before. *)
C14_Step ==
    \A id \in RemovedIds :
        /\ \A k \in 1..Len(prices') : prices'[k].item_id # id
        /\ \A k \in 1..Len(targets') : targets'[k].item_id # id
        /\ \A k \in 1..Len(flags') : flags'[k].item_id # id

C14_RemoveLeavesNoRelatedRecord == [][C14_Step]_vars

====
